---- MODULE Spec2Model ----
(***************************************************************************)
(* A model of the two patched Remix components of this repository:         *)
(*   app/components/Links.tsx    (getLinksForMatches, dedupe, Links)        *)
(*   app/components/Scripts.tsx  (Scripts, DeferredHydrationScript and the  *)
(*                                __remixContext promise registry that the  *)
(*                                context script installs in the browser)   *)
(*                                                                         *)
(* Strings are sequences of atoms, so that "prefix + href" is \o and a     *)
(* prefix applied twice differs from a prefix applied once.  An optional   *)
(* value (undefined | x) is the empty sequence or the one-element sequence.*)
(***************************************************************************)
EXTENDS Naturals, Sequences, FiniteSets

VARIABLES
  \* ---- Links.tsx --------------------------------------------------------
  template,    \* what each route module's links() lists, per route id
  mode,        \* "fresh": links() builds new objects on every call;
               \* "shared": links() returns the same objects every time
  objs,        \* the descriptor objects links() last handed out, by route
  lmatches,    \* routerState.matches seen by Links: the matched route ids in
               \* order, and which array it is (useMemo compares identities):
               \* 0 for the array of the last render, 1 for a newer one
  memoDeps,    \* useMemo cell of Links: the deps of the cached value
  memoVal,     \* useMemo cell of Links: references <<route, index>> to objs
  dedupeIn,    \* the descriptors getLinksForMatches last passed to dedupe
  linkOut,     \* the elements the last render of Links emitted
  linkPrefix,  \* the prefix prop of the last render of Links
  nRenders,    \* number of renders of Links so far
  \* ---- Scripts.tsx: rendering -----------------------------------------
  phase,       \* "server": requests are being rendered; "browser": a response
               \* was loaded and the client renders
  req,         \* the contexts and props of the last server render of Scripts
  response,    \* what that render produced (markup or the error thrown)
  isHydrated,  \* the module-level flag, one per JavaScript realm
  win,         \* window.__remixContext in the browser (undefined | object)
  domDeferred, \* number of deferred script elements in the loaded document
  smemo,       \* useMemo cell of the mounted client instance: initialScripts
  effectPending, \* the mount effect of that instance has not run yet
  instRenders, \* completed renders of that instance
  cin,         \* the contexts and props of the last client render
  cout,        \* what the last client render produced
  first,       \* prefix and emitted initial scripts of the instance's first render
  \* ---- Scripts.tsx: the registry the context script installs -----------
  hreq,        \* the activeDeferreds and abortDelay the server rendered with
  ran,         \* the browser has run the context script
  registry,    \* __remixContext.t: for each pair <<i, k>> with an entry
               \* t[i][k], the loaderData slot of the promise it settles
  promises,    \* the promises put into loaderData by n and p, by <<i, k>>
  timers,      \* the pairs whose abort timer is armed
  chunks,      \* per deferred script the server emitted: "waiting" for its
               \* promise, streamed ("data" / "error"), or "run" by the browser
  rFault,      \* some r call found no registry entry (a TypeError)
  lastCall,    \* the pair and argument of the last r call or timer callback
  \* ---- shared -----------------------------------------------------------
  last         \* name of the operation that ran last

varsH == <<hreq, ran, registry, promises, timers, chunks, rFault, lastCall>>

varsS == <<phase, req, response, isHydrated, win, domDeferred, smemo,
           effectPending, instRenders, cin, cout, first>>

varsL == <<template, mode, objs, lmatches, memoDeps, memoVal, dedupeIn,
           linkOut, linkPrefix, nRenders>>

vars == <<varsL, varsS, varsH, last>>

----------------------------------------------------------------------------
\* Bounds of the model.

\* Longest list a route's links() returns.
MaxLinks == 2

\* Number of renders of one Links instance that are followed.
MaxRenders == 2

\* Most deferred keys the root route's loader returns.
MaxKeys == 2

\* Number of completed renders of one client Scripts instance that are followed.
MaxScriptRenders == 2

\* Most deferred keys of the route whose streamed scripts are followed.
MaxStreamKeys == 2

----------------------------------------------------------------------------
\* Values.

None == <<>>

Some(x) == <<x>>

Range(s) == {s[i] : i \in 1..Len(s)}

RECURSIVE Flat(_)
\* Array.prototype.flat(1) of a sequence of sequences.
Flat(ss) == IF ss = <<>> THEN <<>> ELSE Head(ss) \o Flat(Tail(ss))

\* The n-th smallest element of a set of numbers.
NthIn(K, n) == CHOOSE i \in K : Cardinality({j \in K : j <= i}) = n

SeqsUpTo(S, n) == UNION {[1..k -> S] : k \in 0..n}

\* The asset manifest (manifest.url, manifest.entry, manifest.routes).
manifest ==
  [url    |-> <<"/build/manifest.js">>,
   entry  |-> [module |-> <<"/build/entry.js">>,
               imports |-> << <<"/build/shared.js">>, <<"/build/react.js">> >>],
   routes |-> [r \in {"root", "index", "about"} |->
                 CASE r = "root"  -> [module  |-> <<"/build/root.js">>,
                                      imports |-> Some(<< <<"/build/shared.js">> >>)]
                   [] r = "index" -> [module  |-> <<"/build/index.js">>,
                                      imports |-> Some(<< <<"/build/util.js">> >>)]
                   [] OTHER       -> [module  |-> <<"/build/about.js">>,
                                      imports |-> None]]]

Routes == {"root", "index"}

Desc(page, rel, as, href) == [page |-> page, rel |-> rel, as |-> as, href |-> href]

CssA == Desc(None, "stylesheet", "", Some(<<"/build/a.css">>))

\* The descriptors the root route's links() is drawn from.
RootUniverse ==
  { CssA,
    Desc(None, "modulepreload", "script", Some(<<"/build/root.js">>)),
    Desc(None, "preload", "script", Some(<<"/build/util.js">>)),
    Desc(None, "preload", "script", Some(<<"/build/other.js">>)),
    Desc(Some(<<"/about">>), "", "", None) }

\* The lists the index route's links() is drawn from.
IndexLists ==
  { <<>>, <<CssA>> }

\* The prefix prop: undefined, the empty string, a CDN host.
PrefixProps == {None, Some(<<>>), Some(<<"https://cdn">>)}

\* JavaScript truthiness of an optional string.
Truthy(s) == s # None /\ s[1] # <<>>

\* String(x) of an optional string, as `prefix + x` converts it.
ToStr(s) == IF s = None THEN <<"undefined">> ELSE s[1]

----------------------------------------------------------------------------
\* Links.tsx

\* [...new Set(hrefs)]: first occurrences, in order.
RECURSIVE dedupeHrefs(_)
dedupeHrefs(hrefs) ==
  IF hrefs = <<>> THEN <<>>
  ELSE LET init == dedupeHrefs(SubSeq(hrefs, 1, Len(hrefs) - 1))
           x    == hrefs[Len(hrefs)]
       IN IF x \in Range(init) THEN init ELSE Append(init, x)

isPageLinkDescriptor(d) == d.page # None

getCurrentPageModulePreloadHrefs(matches) ==
  dedupeHrefs(Flat([i \in 1..Len(matches) |->
    LET route == manifest.routes[matches[i]]
    IN IF route.imports # None THEN <<route.module>> \o route.imports[1]
       ELSE <<route.module>>]))

\* JSON.stringify of a descriptor: the defined properties, in order.
JSONstringify(d) ==
  LET props == << <<"page", d.page>>,
                  <<"rel", IF d.rel = "" THEN None ELSE Some(d.rel)>>,
                  <<"as", IF d.as = "" THEN None ELSE Some(d.as)>>,
                  <<"href", d.href>> >>
  IN SelectSeq(props, LAMBDA p : p[2] # None)

alreadyModulePreload(d, preloads) ==
  /\ ~isPageLinkDescriptor(d)
  /\ d.as = "script"
  /\ Truthy(d.href)
  /\ d.href[1] \in Range(preloads)

RECURSIVE dedupeFromKeepAll(_, _, _, _, _)
\* dedupeFrom without the `set` of serializations (a faulty variant).
dedupeFromKeepAll(descriptors, preloads, i, set, deduped) ==
  IF i > Len(descriptors) THEN deduped
  ELSE IF alreadyModulePreload(descriptors[i], preloads)
       THEN dedupeFromKeepAll(descriptors, preloads, i + 1, set, deduped)
       ELSE dedupeFromKeepAll(descriptors, preloads, i + 1, set,
                              Append(deduped, i))

RECURSIVE dedupeFrom(_, _, _, _, _)
\* The reduce of dedupe from index i on: `set` holds the serializations seen,
\* `deduped` the indices pushed so far.
dedupeFrom(descriptors, preloads, i, set, deduped) ==
  IF i > Len(descriptors) THEN deduped
  ELSE IF alreadyModulePreload(descriptors[i], preloads)
       THEN dedupeFrom(descriptors, preloads, i + 1, set, deduped)
       ELSE LET str == JSONstringify(descriptors[i])
            IN IF str \notin set
               THEN dedupeFrom(descriptors, preloads, i + 1, set \cup {str},
                               Append(deduped, i))
               ELSE dedupeFrom(descriptors, preloads, i + 1, set, deduped)

\* dedupe(descriptors, preloads): the indices of the descriptors it returns.
dedupe(descriptors, preloads) == dedupeFrom(descriptors, preloads, 1, {}, <<>>)

\* links.forEach of getLinksForMatches on one list of objects.
prefixStylesheets(list, prefix) ==
  [i \in 1..Len(list) |->
     IF ~isPageLinkDescriptor(list[i]) /\ list[i].rel = "stylesheet"
        /\ Truthy(list[i].href)
     THEN [list[i] EXCEPT !.href = Some(prefix \o list[i].href[1])]
     ELSE list[i]]

\* The objects behind the second links() call of each matched route, after
\* the forEach over the objects of the first call.
objsAfterCalls(matches, prefix) ==
  [r \in Routes |->
     IF mode = "shared"
     THEN IF r \in Range(matches) THEN prefixStylesheets(objs[r], prefix)
          ELSE objs[r]
     ELSE template[r]]

\* getLinksForMatches(matches, routeModules, manifest, prefix = '').
getLinksForMatches(matches, prefixProp) ==
  LET prefix   == IF prefixProp = None THEN <<>> ELSE prefixProp[1]
      heap     == objsAfterCalls(matches, prefix)
      refs     == Flat([m \in 1..Len(matches) |->
                     [i \in 1..Len(heap[matches[m]]) |-> <<matches[m], i>>]])
      descs    == [n \in 1..Len(refs) |-> heap[refs[n][1]][refs[n][2]]]
      preloads == getCurrentPageModulePreloadHrefs(matches)
      kept     == dedupe(descs, preloads)
  IN [heap |-> heap, descs |-> descs,
      links |-> [n \in 1..Len(kept) |-> refs[kept[n]]]]

\* links.forEach of Links on one memoized object.
parseLink(d, prefixProp) ==
  IF ~isPageLinkDescriptor(d)
  THEN IF d.rel = "stylesheet"
       THEN [d EXCEPT !.href = IF Truthy(prefixProp)
                                THEN Some(prefixProp[1] \o ToStr(d.href))
                                ELSE d.href]
       ELSE d
  ELSE IF Truthy(d.page)
       THEN [d EXCEPT !.page = IF Truthy(prefixProp)
                                THEN Some(prefixProp[1] \o d.page[1])
                                ELSE d.page]
       ELSE d

\* One render of Links with the given prefix prop, up to the hrefs and pages
\* of the elements it returns (the imagesrcset renaming is left out).
Links(prefixProp) ==
  /\ nRenders < MaxRenders
  /\ LET deps   == <<[lmatches EXCEPT !.id = 0], prefixProp>>
         fresh  == memoDeps = None \/ memoDeps[1] # <<lmatches, prefixProp>>
         got    == getLinksForMatches(lmatches.routes, prefixProp)
         heap0  == IF fresh THEN got.heap ELSE objs
         links  == IF fresh THEN got.links ELSE memoVal
         heap1  == [r \in Routes |-> [i \in 1..Len(heap0[r]) |->
                      IF <<r, i>> \in Range(links)
                      THEN parseLink(heap0[r][i], prefixProp)
                      ELSE heap0[r][i]]]
     IN /\ objs' = heap1
        /\ memoDeps' = Some(deps)
        /\ memoVal' = links
        /\ dedupeIn' = IF fresh THEN got.descs ELSE dedupeIn
        /\ linkOut' = [n \in 1..Len(links) |->
                         [ref |-> links[n], el |-> heap1[links[n][1]][links[n][2]]]]
  /\ linkPrefix' = prefixProp
  /\ nRenders' = nRenders + 1
  /\ last' = "Links"
  /\ lmatches' = [lmatches EXCEPT !.id = 0]
  /\ UNCHANGED <<template, mode>>

\* The router state changes (a navigation or a revalidation): a new matches
\* array, of the same or of other routes.
Navigate(ms) ==
  /\ nRenders < MaxRenders
  /\ lmatches' = [id |-> 1, routes |-> ms]
  /\ last' = "Navigate"
  /\ UNCHANGED <<template, mode, objs, memoDeps, memoVal, dedupeIn, linkOut,
                 linkPrefix, nRenders>>

MatchLists == {<<"root">>, <<"root", "index">>}

----------------------------------------------------------------------------
\* Scripts.tsx: values

\* One key of a DeferredData: pending, settled with data, settled with an
\* error, or no longer pending with neither recorded.
KeyStatus == {"pending", "data", "error", "unset"}

\* A DeferredData of the given keys (in order) with the given statuses:
\* deferredKeys, pendingKeys and the tracked promises' _data / _error.
DeferredData(keys, status) ==
  [deferredKeys |-> keys,
   pendingKeys  |-> {keys[i] : i \in {j \in 1..Len(keys) : status[j] = "pending"}},
   data         |-> [k \in Range(keys) |->
                       LET i == CHOOSE j \in 1..Len(keys) : keys[j] = k
                       IN [_error |-> IF status[i] = "error"
                                      THEN Some(<<"boom ", k>>) ELSE None,
                           _data  |-> IF status[i] = "data"
                                      THEN Some(<<"value of ", k>>) ELSE None]]]

KeyNames == <<"a", "b", "c", "d">>

\* The DeferredData the root route's loader may have returned.
RootDeferreds ==
  {DeferredData(SubSeq(KeyNames, 1, n), st) :
     n \in 1..MaxKeys, st \in UNION {[1..m -> KeyStatus] : m \in {MaxKeys}}}

\* staticContext.activeDeferreds: undefined, or the entries in insertion order.
ActiveDeferreds ==
  {None} \cup
  {Some(<< <<"root", d>> >>) : d \in RootDeferreds} \cup
  {Some(<< <<"root", d>>, <<"index", DeferredData(<<"z">>, <<st>>)>> >>) :
     d \in RootDeferreds, st \in KeyStatus}

AbortDelays == {None, Some(5000)}

\* navigation.location: idle, a path that matches, a path that does not.
Navigations == {None, Some(<<"/about">>), Some(<<"/nowhere">>)}

\* matchRoutes(router.routes, location) of react-router for those paths.
matchRoutes(location) ==
  IF location = <<"/about">> THEN Some(<<"root", "about">>) ELSE None

\* The props spread onto the script elements (a nonce).
ScriptPropsSet == {"nonce-1", "nonce-2"}

Throw(msg) == [kind |-> "error", err |-> msg, links |-> <<>>, initial |-> None,
               deferred |-> <<>>, memo |-> None]

----------------------------------------------------------------------------
\* Scripts.tsx: the component

\* addPrefix joining the two the wrong way round (a faulty variant).
addPrefixAfter(url, prefix) == IF Truthy(prefix) THEN url \o prefix[1] ELSE url

addPrefix(url, prefix) == IF Truthy(prefix) THEN prefix[1] \o url ELSE url

\* dedupe(array) at the end of Scripts.tsx.
scriptsDedupe(array) == dedupeHrefs(array)

\* promiseKeyValue passing n its arguments the wrong way round (a faulty variant).
promiseKeyValueSwapped(routeId, deferredData, key) ==
  IF key \in deferredData.pendingKeys
  THEN [kind |-> "ok", key |-> key, call |-> "n", arg |-> <<key, routeId>>,
        push |-> << [routeId |-> routeId, dataKey |-> key] >>]
  ELSE [kind |-> "ok", key |-> key, call |-> "p",
        arg |-> IF deferredData.data[key]._error # None
                THEN <<"error", deferredData.data[key]._error[1]>>
                ELSE <<"data", deferredData.data[key]._data[1]>>,
        push |-> <<>>]

\* promiseKeyValue without the throw for a key settled with nothing (a faulty variant).
promiseKeyValueNoThrow(routeId, deferredData, key) ==
  IF key \in deferredData.pendingKeys
  THEN [kind |-> "ok", key |-> key, call |-> "n", arg |-> <<routeId, key>>,
        push |-> << [routeId |-> routeId, dataKey |-> key] >>]
  ELSE [kind |-> "ok", key |-> key, call |-> "p", arg |-> <<"data", <<>> >>,
        push |-> <<>>]

\* One deferred key of one route in the context script: the property it
\* assigns, or the error thrown for a key that is settled with nothing.
promiseKeyValue(routeId, deferredData, key) ==
  IF key \in deferredData.pendingKeys
  THEN [kind |-> "ok", key |-> key, call |-> "n", arg |-> <<routeId, key>>,
        push |-> << [routeId |-> routeId, dataKey |-> key] >>]
  ELSE LET trackedPromise == deferredData.data[key]
       IN IF trackedPromise._error # None
          THEN [kind |-> "ok", key |-> key, call |-> "p",
                arg |-> <<"error", trackedPromise._error[1]>>, push |-> <<>>]
          ELSE IF trackedPromise._data = None
               THEN [kind |-> "error",
                     err |-> <<"The deferred data for ", key, " was not resolved">>]
               ELSE [kind |-> "ok", key |-> key, call |-> "p",
                     arg |-> <<"data", trackedPromise._data[1]>>, push |-> <<>>]

\* The __remixContext.a the context script ends with, always written (a faulty variant).
activeCountAlways(deferredScripts) == Some(Len(deferredScripts))

\* The __remixContext.a the context script ends with: written only when
\* deferred scripts were pushed.
activeCount(deferredScripts) ==
  IF Len(deferredScripts) > 0 THEN Some(Len(deferredScripts)) ELSE None

\* The (routeId, key) pairs of activeDeferreds in the order the maps visit them.
deferredEntries(activeDeferreds) ==
  Flat([e \in 1..Len(activeDeferreds) |->
     [i \in 1..Len(activeDeferreds[e][2].deferredKeys) |->
        <<activeDeferreds[e][1], activeDeferreds[e][2],
          activeDeferreds[e][2].deferredKeys[i]>>]])

\* contextScript of the useMemo: the handoff, the helpers p / n / r when
\* there are active deferreds, one Object.assign per route and the count a.
contextScript(staticContext, abortDelay) ==
  LET activeDeferreds == IF staticContext = None THEN None
                         ELSE staticContext[1].activeDeferreds
      entries == IF activeDeferreds = None THEN <<>>
                 ELSE deferredEntries(activeDeferreds[1])
      values  == [n \in 1..Len(entries) |->
                    promiseKeyValue(entries[n][1], entries[n][2], entries[n][3])]
      bad     == {n \in 1..Len(values) : values[n].kind = "error"}
  IN IF bad # {}
     THEN [kind |-> "error",
           err |-> values[CHOOSE n \in bad : \A m \in bad : n <= m].err]
     ELSE LET deferredScripts == Flat([n \in 1..Len(values) |-> values[n].push])
          IN [kind    |-> "ok",
              script  |->
                [handoff |-> staticContext # None,
                 helpers |-> activeDeferreds # None,
                 timer   |-> IF activeDeferreds # None THEN abortDelay ELSE None,
                 assigns |-> IF activeDeferreds = None THEN <<>>
                             ELSE [e \in 1..Len(activeDeferreds[1]) |->
                                    [routeId |-> activeDeferreds[1][e][1],
                                     props |->
                                       LET mine == {n \in 1..Len(values) :
                                                     entries[n][1] = activeDeferreds[1][e][1]}
                                       IN [i \in 1..Cardinality(mine) |->
                                            LET v == values[NthIn(mine, i)]
                                            IN [key |-> v.key, call |-> v.call,
                                                arg |-> v.arg]]]],
                 a       |-> activeCount(deferredScripts)],
              pushed |-> deferredScripts]

\* routeModulesScript of the useMemo: ' ' unless static.
routeModulesScript(p) ==
  IF ~p.isStatic THEN None
  ELSE Some(
    [hmr     |-> IF p.hmr THEN Some(<<"/build/hmr.js">>) ELSE None,
     imports |-> << [from |-> manifest.url, url |-> addPrefix(manifest.url, p.prefix)] >>
                 \o [i \in 1..Len(p.matches) |->
                      [from |-> manifest.routes[p.matches[i]].module,
                       url  |-> addPrefix(manifest.routes[p.matches[i]].module, p.prefix)]],
     routeModules |-> p.matches,
     entry   |-> [from |-> manifest.entry.module,
                  url  |-> addPrefix(manifest.entry.module, p.prefix)]])

\* The callback of useMemo(() => ..., []) for initialScripts.
initialScripts(p) ==
  LET ctx == contextScript(p.staticContext, p.abortDelay)
  IN IF ctx.kind = "error" THEN ctx
     ELSE [kind   |-> "ok",
           val    |-> [context |-> ctx.script,
                       modules |-> routeModulesScript(p),
                       props   |-> p.props],
           pushed |-> ctx.pushed]

\* useMemo without its cache: computed on every render (a faulty variant).
useMemoEveryRender(p, memo) == initialScripts(p)

\* useMemo(..., []) of initialScripts: computed when the cell is empty.
useMemoInitialScripts(p, memo) ==
  IF memo = None THEN initialScripts(p)
  ELSE [kind |-> "ok", val |-> memo[1], pushed |-> <<>>]

\* The preload list without the isHydrated test (a faulty variant).
preloadsAlways(p, nextMatches, hydrated) ==
  LET ms == p.matches \o nextMatches
  IN manifest.entry.imports \o
     Flat([i \in 1..Len(ms) |->
       (IF manifest.routes[ms[i]].imports = None THEN <<>>
        ELSE manifest.routes[ms[i]].imports[1]) \o <<manifest.routes[ms[i]].module>>])

\* The preload list of one render: nothing once hydrated.
preloadsOf(p, nextMatches, hydrated) ==
  LET ms == p.matches \o nextMatches
      routePreloads ==
        Flat([i \in 1..Len(ms) |->
          LET route == manifest.routes[ms[i]]
          IN (IF route.imports = None THEN <<>> ELSE route.imports[1])
               \o <<route.module>>])
  IN IF hydrated THEN <<>> ELSE manifest.entry.imports \o routePreloads

\* The test of the three useContext results.
contextMissingRemixOnly(p) == ~p.remixContext

contextMissing(p) == ~p.remixContext \/ ~p.routeModules \/ ~p.routerContext

\* One call of the function Scripts: props and contexts p, the instance's
\* useMemo cell, the module flag and the global __remixContext as it reads them.
Scripts(p, memo, hydrated, global) ==
  IF contextMissing(p)
  THEN Throw(<<"Context Must Provide">>)
  ELSE
    LET init == useMemoInitialScripts(p, memo)
    IN IF init.kind = "error" THEN Throw(init.err)
       ELSE
         LET placeholders ==
               IF ~p.isStatic /\ global # None /\ global[1].a # None
                  /\ global[1].a[1] # 0
               THEN [i \in 1..global[1].a[1] |-> [routeId |-> "", dataKey |-> ""]]
               ELSE <<>>
             deferredScripts == init.pushed \o placeholders
             matched == IF p.navigation = None THEN Some(<<>>)
                        ELSE matchRoutes(p.navigation[1])
         IN IF matched = None
            THEN Throw(<<"No routes match path ">> \o p.navigation[1])
            ELSE
              LET preloads == scriptsDedupe(preloadsOf(p, matched[1], hydrated))
              IN [kind  |-> "ok",
                  err   |-> <<>>,
                  links |-> << [from |-> manifest.url,
                                href |-> addPrefix(manifest.url, p.prefix)],
                               [from |-> manifest.entry.module,
                                href |-> addPrefix(manifest.entry.module, p.prefix)] >>
                            \o [i \in 1..Len(preloads) |->
                                 [from |-> preloads[i],
                                  href |-> addPrefix(preloads[i], p.prefix)]],
                  initial  |-> IF hydrated THEN None ELSE Some(init.val),
                  deferred |-> IF hydrated THEN <<>> ELSE deferredScripts,
                  memo     |-> Some(init.val)]

\* The contexts and props a render may be given.  The client's router is
\* never static and has no staticContext; the server's always is and has.
\* abortDelay and manifest.hmr are read by a static render only.  Each of
\* the three contexts may be missing on the server; on the client the Remix
\* context is the one followed.
RenderProps(static) ==
  [remixContext  : BOOLEAN,
   routeModules  : IF static THEN BOOLEAN ELSE {TRUE},
   routerContext : IF static THEN BOOLEAN ELSE {TRUE},
   prefix        : PrefixProps,
   matches       : MatchLists,
   isStatic      : {static},
   staticContext : IF static THEN {Some([activeDeferreds |-> ad]) : ad \in ActiveDeferreds}
                   ELSE {None},
   abortDelay    : IF static THEN AbortDelays ELSE {None},
   hmr           : IF static THEN BOOLEAN ELSE {FALSE},
   navigation    : IF static THEN {None} ELSE Navigations,
   props         : ScriptPropsSet]

\* At most one of the three contexts is missing in the renders followed.
Provided(p) ==
  Cardinality({c \in {1, 2, 3} :
     <<p.remixContext, p.routeModules, p.routerContext>>[c] = FALSE}) <= 1

\* renderToString / renderToPipeableStream calls Scripts once for the request
\* followed: a new instance, no effects.
ServerRender ==
  /\ phase = "server"
  /\ req = None
  /\ \E p \in RenderProps(TRUE) :
       /\ Provided(p)
       /\ req' = Some(p)
       /\ response' = Some(Scripts(p, None, isHydrated["server"], None))
  /\ last' = "ServerRender"
  /\ UNCHANGED <<phase, isHydrated, win, domDeferred, smemo, effectPending,
                 instRenders, cin, cout, first>>

\* The browser loads a response: the context script runs (the handoff object
\* and its field a) and the deferred script elements are in the document.
LoadPage ==
  /\ phase = "server"
  /\ response # None
  /\ response[1].kind = "ok"
  /\ phase' = "browser"
  /\ win' = Some([a |-> response[1].initial[1].context.a])
  /\ domDeferred' = Len(response[1].deferred)
  /\ req' = None
  /\ response' = None
  /\ last' = "LoadPage"
  /\ UNCHANGED <<isHydrated, smemo, effectPending, instRenders, cin, cout, first>>

\* React calls Scripts for the mounted client instance (or mounts it).
ClientRender ==
  /\ phase = "browser"
  /\ instRenders < MaxScriptRenders
  /\ \E p \in RenderProps(FALSE) :
       LET out == Scripts(p, smemo, isHydrated["client"], win)
       IN /\ Provided(p)
          /\ cout' = Some(out)
          /\ cin' = Some(p)
          /\ IF out.kind = "ok"
             THEN /\ smemo' = out.memo
                  /\ instRenders' = instRenders + 1
                  /\ effectPending' = (IF instRenders = 0 THEN TRUE ELSE effectPending)
                  /\ first' = IF instRenders = 0
                              THEN Some([prefix |-> p.prefix,
                                         initial |-> out.initial])
                              ELSE first
             ELSE UNCHANGED <<smemo, instRenders, effectPending, first>>
  /\ last' = "ClientRender"
  /\ UNCHANGED <<phase, req, response, isHydrated, win, domDeferred>>

\* useEffect(() => { isHydrated = true }, []) of the mounted instance.
MountEffect ==
  /\ phase = "browser"
  /\ effectPending
  /\ isHydrated' = [isHydrated EXCEPT !["client"] = TRUE]
  /\ effectPending' = FALSE
  /\ last' = "MountEffect"
  /\ UNCHANGED <<phase, req, response, win, domDeferred, smemo, instRenders,
                 cin, cout, first>>

\* React unmounts the instance; the next render mounts a new one.
Remount ==
  /\ phase = "browser"
  /\ instRenders > 0
  /\ smemo' = None
  /\ effectPending' = FALSE
  /\ instRenders' = 0
  /\ first' = None
  /\ last' = "Remount"
  /\ UNCHANGED <<phase, req, response, isHydrated, win, domDeferred, cin, cout>>

----------------------------------------------------------------------------
\* Scripts.tsx: the helpers of the context script, as the browser runs them

\* The activeDeferreds whose streamed scripts are followed: the root route
\* with settled and pending keys, alone or, when it has fewer than
\* MaxStreamKeys keys, beside a pending key of the index route.
StreamDeferreds ==
  LET roots(m) == {DeferredData(SubSeq(KeyNames, 1, n), st) :
                     n \in 1..m,
                     st \in [1..MaxStreamKeys -> {"pending", "data", "error"}]}
  IN {Some(<< <<"root", d>> >>) : d \in roots(MaxStreamKeys)} \cup
     {Some(<< <<"root", d>>, <<"index", DeferredData(<<"a">>, <<"pending">>)>> >>) :
        d \in roots(MaxStreamKeys - 1)}

\* The calls of n and p in the Object.assign statements, in order.
callsOf(script) ==
  Flat([e \in 1..Len(script.assigns) |->
     [i \in 1..Len(script.assigns[e].props) |->
        [routeId |-> script.assigns[e].routeId,
         key     |-> script.assigns[e].props[i].key,
         call    |-> script.assigns[e].props[i].call,
         arg     |-> script.assigns[e].props[i].arg]]])

\* The setTimeout of n armed whatever abortDelay is (a faulty variant).
armedTimersAlways(script, created) == created

\* The pairs for which n arms the abort timer: typeof abortDelay === 'number'.
armedTimers(script, created) == IF script.timer # None THEN created ELSE {}

Pending == [state |-> "pending", value |-> <<>>, tracked |-> FALSE]

\* The resolve / reject functions of a promise: the first outcome stays.
settle(promise, state, value) ==
  IF promise.state = "pending"
  THEN [promise EXCEPT !.state = state, !.value = value]
  ELSE promise

\* __remixContext.p(v, e): a promise already resolved or rejected.
remixContextP(arg) ==
  IF arg[1] = "error" THEN settle(Pending, "rejected", arg[2])
  ELSE settle(Pending, "fulfilled", arg[2])

\* The script of the response followed.
hscript == contextScript(Some([activeDeferreds |-> hreq[1].activeDeferreds]),
                         hreq[1].abortDelay)

\* The browser runs the context script: every n(i, k) creates the entry
\* t[i][k] and a pending promise and arms its timer, every p(...) a settled
\* promise; Object.assign puts them into loaderData[routeId] under the key.
RunContextScript ==
  /\ hreq # None
  /\ ~ran
  /\ LET calls   == callsOf(hscript.script)
         ncalls  == {d \in 1..Len(calls) : calls[d].call = "n"}
         created == {calls[c].arg : c \in ncalls}
         slots   == {<<calls[c].routeId, calls[c].key>> : c \in 1..Len(calls)}
     IN /\ registry' = [ik \in created |->
             LET c == CHOOSE d \in ncalls : calls[d].arg = ik
             IN <<calls[c].routeId, calls[c].key>>]
        /\ promises' = [ik \in slots |->
             LET c == CHOOSE d \in 1..Len(calls) :
                        <<calls[d].routeId, calls[d].key>> = ik
             IN IF calls[c].call = "n" THEN Pending ELSE remixContextP(calls[c].arg)]
        /\ timers' = armedTimers(hscript.script, created)
  /\ ran' = TRUE
  /\ last' = "RunContextScript"
  /\ UNCHANGED <<hreq, chunks, rFault, lastCall>>

\* On the server the promise of a DeferredHydrationScript settles and its
\* Await streams __remixContext.r(routeId, key, data) or, through
\* ErrorDeferredHydrationScript, __remixContext.r(routeId, key, !1, error).
StreamChunk ==
  /\ hreq # None
  /\ \E n \in DOMAIN chunks, outcome \in {"data", "error"} :
       /\ chunks[n] = "waiting"
       /\ chunks' = [chunks EXCEPT ![n] = outcome]
  /\ last' = "StreamChunk"
  /\ UNCHANGED <<hreq, ran, registry, promises, timers, rFault, lastCall>>

\* The browser runs a streamed script, after the context script that
\* precedes it in the document: __remixContext.r(i, k, v, e).
RunR ==
  /\ ran
  /\ \E n \in DOMAIN chunks :
       LET i == hscript.pushed[n].routeId
           k == hscript.pushed[n].dataKey
       IN /\ chunks[n] \in {"data", "error"}
          /\ chunks' = [chunks EXCEPT ![n] = "run"]
          /\ lastCall' = Some([pair |-> <<i, k>>, arg |-> chunks[n]])
          /\ IF <<i, k>> \notin DOMAIN registry
             THEN rFault' = TRUE /\ UNCHANGED promises
             ELSE /\ UNCHANGED rFault
                  /\ promises' =
                       [promises EXCEPT ![registry[<<i, k>>]] =
                          IF chunks[n] = "error"
                          THEN settle(@, "rejected", <<"late error of ", k>>)
                          ELSE settle(@, "fulfilled", <<"late value of ", k>>)]
  /\ last' = "RunR"
  /\ UNCHANGED <<hreq, ran, registry, timers>>

\* The setTimeout callback of n(i, k), abortDelay after the call.
TimerFire ==
  /\ \E ik \in timers :
       /\ timers' = timers \ {ik}
       /\ lastCall' = Some([pair |-> ik, arg |-> "timeout"])
       /\ IF promises[registry[ik]].tracked
             /\ promises[registry[ik]].state # "pending"
          THEN UNCHANGED promises
          ELSE promises' = [promises EXCEPT ![registry[ik]] =
                              settle(@, "rejected", <<"Server timeout.">>)]
  /\ last' = "TimerFire"
  /\ UNCHANGED <<hreq, ran, registry, chunks, rFault>>

\* An <Await> of the page renders the promise: react-router tracks it, so
\* that _data / _error are defined on it once it has settled.
AwaitTrack ==
  /\ \E ik \in DOMAIN promises :
       /\ ~promises[ik].tracked
       /\ promises' = [promises EXCEPT ![ik].tracked = TRUE]
  /\ last' = "AwaitTrack"
  /\ UNCHANGED <<hreq, ran, registry, timers, chunks, rFault, lastCall>>

----------------------------------------------------------------------------
\* The specifications: one per component, the other components' variables
\* at rest.

\* The state of the Links variables in a specification that does not use them.
IdleL ==
  /\ template = [r \in Routes |-> <<>>]
  /\ mode = "fresh"
  /\ objs = [r \in Routes |-> <<>>]
  /\ lmatches = [id |-> 0, routes |-> <<"root">>]
  /\ memoDeps = None
  /\ memoVal = <<>>
  /\ dedupeIn = <<>>
  /\ linkOut = <<>>
  /\ linkPrefix = None
  /\ nRenders = 0

\* The state of the registry variables in a specification that does not use them.
IdleH ==
  /\ hreq = None
  /\ ran = FALSE
  /\ registry = <<>>
  /\ promises = <<>>
  /\ timers = {}
  /\ chunks = <<>>
  /\ rFault = FALSE
  /\ lastCall = None

\* The state before any render of Scripts.
InitS ==
  /\ phase = "server"
  /\ req = None
  /\ response = None
  /\ isHydrated = [realm \in {"server", "client"} |-> FALSE]
  /\ win = None
  /\ domDeferred = 0
  /\ smemo = None
  /\ effectPending = FALSE
  /\ instRenders = 0
  /\ cin = None
  /\ cout = None
  /\ first = None

\* Links: the route modules' links() lists, then renders and navigations.
InitLinks ==
  /\ InitS /\ IdleH /\ last = "init"
  /\ \E rl \in SeqsUpTo(RootUniverse, MaxLinks), il \in IndexLists :
       template = [r \in Routes |-> IF r = "root" THEN rl ELSE il]
  /\ mode \in {"fresh", "shared"}
  /\ objs = template
  /\ lmatches \in [id : {0}, routes : MatchLists]
  /\ memoDeps = None
  /\ memoVal = <<>>
  /\ dedupeIn = <<>>
  /\ linkOut = <<>>
  /\ linkPrefix = None
  /\ nRenders = 0

\* Scripts: a request rendered on the server, loaded and rendered in the browser.
Init == InitS /\ IdleL /\ IdleH /\ last = "init"

Next ==
  \/ ServerRender /\ UNCHANGED <<varsL, varsH>>
  \/ LoadPage /\ UNCHANGED <<varsL, varsH>>
  \/ ClientRender /\ UNCHANGED <<varsL, varsH>>
  \/ MountEffect /\ UNCHANGED <<varsL, varsH>>
  \/ Remount /\ UNCHANGED <<varsL, varsH>>

Spec == Init /\ [][Next]_vars

NextL ==
  \/ \E p \in PrefixProps : Links(p) /\ UNCHANGED <<varsS, varsH>>
  \/ \E ms \in MatchLists : Navigate(ms) /\ UNCHANGED <<varsS, varsH>>

SpecLinks == InitLinks /\ [][NextL]_vars

\* A response whose server render succeeded, with its deferred scripts
\* waiting for their promises.
InitHydrate ==
  /\ InitS /\ IdleL /\ last = "init"
  /\ \E ad \in StreamDeferreds, delay \in AbortDelays :
       hreq = Some([activeDeferreds |-> ad, abortDelay |-> delay])
  /\ hscript.kind = "ok"
  /\ ran = FALSE
  /\ registry = <<>>
  /\ promises = <<>>
  /\ timers = {}
  /\ chunks = [n \in 1..Len(hscript.pushed) |-> "waiting"]
  /\ rFault = FALSE
  /\ lastCall = None

NextH ==
  \/ RunContextScript /\ UNCHANGED <<varsL, varsS>>
  \/ StreamChunk /\ UNCHANGED <<varsL, varsS>>
  \/ RunR /\ UNCHANGED <<varsL, varsS>>
  \/ TimerFire /\ UNCHANGED <<varsL, varsS>>
  \/ AwaitTrack /\ UNCHANGED <<varsL, varsS>>

SpecHydrate == InitHydrate /\ [][NextH]_vars

----------------------------------------------------------------------------
\* Properties of Links.tsx

\* The string the prefix prop stands for ('' when it is undefined).
PrefixString(p) == IF p = None THEN <<>> ELSE p[1]

\* C1: every stylesheet descriptor that links() lists with an href is emitted
\* by Links with href = prefix + original href, the prefix applied exactly
\* once, after any number of renders and for fresh as for shared objects.
C1_StylesheetPrefixedOnce ==
  \A n \in 1..Len(linkOut) :
    LET el   == linkOut[n].el
        orig == template[linkOut[n].ref[1]][linkOut[n].ref[2]]
    IN (~isPageLinkDescriptor(orig) /\ orig.rel = "stylesheet" /\ Truthy(orig.href))
         => el.href = Some(PrefixString(linkPrefix) \o orig.href[1])

\* The references <<route, index>> of the objects the matched routes list.
RefsOf(matches) ==
  Flat([m \in 1..Len(matches) |->
     [i \in 1..Len(template[matches[m]]) |-> <<matches[m], i>>]])

\* Claim (1) of C9: a non-page descriptor with as = 'script' whose href is
\* the module or an import of a matched route.
IsCurrentPagePreload(d, matches) ==
  /\ d.page = None
  /\ d.as = "script"
  /\ Truthy(d.href)
  /\ \E m \in Range(matches) :
        \/ d.href[1] = manifest.routes[m].module
        \/ /\ manifest.routes[m].imports # None
           /\ d.href[1] \in Range(manifest.routes[m].imports[1])

\* The positions C9 says survive: not a current-page preload, and no
\* earlier descriptor with the same serialization.
KeptPositions(in, matches) ==
  {i \in 1..Len(in) :
     /\ ~IsCurrentPagePreload(in[i], matches)
     /\ \A j \in 1..(i - 1) : JSONstringify(in[j]) # JSONstringify(in[i])}

\* C9: getLinksForMatches returns the matched routes' descriptors in their
\* original order, less the current page's script preloads and less every
\* repetition of an earlier structurally equal descriptor; nothing else is
\* removed and nothing is added.
C9_DedupeKeepsExactly ==
  memoDeps # None =>
    LET ms   == memoDeps[1][1].routes
        refs == RefsOf(ms)
        K    == KeptPositions(dedupeIn, ms)
    IN /\ Len(dedupeIn) = Len(refs)
       /\ mode = "fresh" =>
            \A n \in 1..Len(refs) : dedupeIn[n] = template[refs[n][1]][refs[n][2]]
       /\ memoVal = [n \in 1..Cardinality(K) |-> refs[NthIn(K, n)]]

\* C9 witness: a computed list from which a current-page preload and a
\* repeated descriptor were both dropped while something was kept.
C9_Witness ==
  /\ memoDeps # None
  /\ last = "Links"
  /\ memoVal # <<>>
  /\ \E i \in 1..Len(dedupeIn) :
       IsCurrentPagePreload(dedupeIn[i], memoDeps[1][1].routes)
  /\ \E i, j \in 1..Len(dedupeIn) :
        /\ j < i
        /\ ~IsCurrentPagePreload(dedupeIn[i], memoDeps[1][1].routes)
        /\ JSONstringify(dedupeIn[j]) = JSONstringify(dedupeIn[i])

----------------------------------------------------------------------------
\* Properties of the Scripts component

\* The renders on record: the server's and the client's last, each with the
\* contexts and props it was given.
Rendered ==
  (IF req # None /\ response # None THEN {<<req[1], response[1]>>} ELSE {}) \cup
  (IF cin # None /\ cout # None THEN {<<cin[1], cout[1]>>} ELSE {})

\* prefix + path for a non-empty prefix, the path itself otherwise.
Prefixed(p, path) ==
  IF p.prefix = None THEN path
  ELSE IF p.prefix[1] = <<>> THEN path ELSE p.prefix[1] \o path

\* The paths an unhydrated render preloads: the entry imports, and the
\* imports and module of every matched and every next-matched route.
PreloadPaths(p) ==
  LET ms == Range(p.matches) \cup
            (IF p.navigation = None THEN {} ELSE Range(matchRoutes(p.navigation[1])[1]))
  IN Range(manifest.entry.imports)
     \cup {manifest.routes[m].module : m \in ms}
     \cup UNION {Range(manifest.routes[m].imports[1]) :
                   m \in {x \in ms : manifest.routes[x].imports # None}}

\* C2: every module URL of the manifest that Scripts emits (manifest.url,
\* manifest.entry.module, the matched routes' modules, the modulepreload
\* paths of the entry and route imports) is prefix + path for a non-empty
\* prefix and the path itself for an undefined or empty one, in the
\* modulepreload links as in the imports of the route-modules script.
C2_ModuleUrlsPrefixed ==
  \A r \in Rendered :
    LET p == r[1]
        out == r[2]
    IN out.kind = "ok" =>
         /\ \A i \in 1..Len(out.links) :
              out.links[i].href = Prefixed(p, out.links[i].from)
         /\ {manifest.url, manifest.entry.module}
              \subseteq {out.links[i].from : i \in 1..Len(out.links)}
         /\ out.initial # None =>
              {out.links[i].from : i \in 1..Len(out.links)}
                = {manifest.url, manifest.entry.module} \cup PreloadPaths(p)
         /\ (out.initial # None /\ p.isStatic) =>
              LET m == out.initial[1].modules[1]
              IN /\ [i \in 1..Len(m.imports) |-> m.imports[i].from]
                      = <<manifest.url>> \o
                        [i \in 1..Len(p.matches) |-> manifest.routes[p.matches[i]].module]
                 /\ \A i \in 1..Len(m.imports) :
                      m.imports[i].url = Prefixed(p, m.imports[i].from)
                 /\ m.entry.from = manifest.entry.module
                 /\ m.entry.url = Prefixed(p, m.entry.from)

\* C2 witness: a server render with a non-empty prefix and two matched
\* routes that emitted preload links and the route-modules script.
C2_Witness ==
  /\ last = "ServerRender"
  /\ response[1].kind = "ok"
  /\ Truthy(req[1].prefix)
  /\ Len(req[1].matches) = 2
  /\ Len(response[1].links) > 2
  /\ response[1].initial[1].modules # None

\* C3: a render with one of the three contexts missing throws the context
\* error and emits no markup; a render with all three never throws it.
C3_ContextFailsFast ==
  \A r \in Rendered :
    LET p == r[1]
        out == r[2]
    IN IF ~p.remixContext \/ ~p.routeModules \/ ~p.routerContext
       THEN /\ out.kind = "error"
            /\ out.err = <<"Context Must Provide">>
            /\ out.links = <<>>
            /\ out.initial = None
            /\ out.deferred = <<>>
       ELSE out.err # <<"Context Must Provide">>

\* C3 witness: a server render without the data router context failed, with
\* the other two contexts present.
C3_Witness ==
  /\ last = "ServerRender"
  /\ req[1].remixContext /\ ~req[1].routeModules /\ req[1].routerContext
  /\ response[1].kind = "error"

\* The deferred keys of a request in the order the context script visits
\* them, each with its DeferredData.
KeysOf(p) ==
  IF p.staticContext = None THEN <<>>
  ELSE IF p.staticContext[1].activeDeferreds = None THEN <<>>
  ELSE deferredEntries(p.staticContext[1].activeDeferreds[1])

\* A key that is not pending and has neither an error nor data recorded.
Unresolved(e) ==
  /\ e[3] \notin e[2].pendingKeys
  /\ e[2].data[e[3]]._error = None
  /\ e[2].data[e[3]]._data = None

DeferredError(key) == <<"The deferred data for ", key, " was not resolved">>

AllPresent(p) == p.remixContext /\ p.routeModules /\ p.routerContext

\* C4 as stated: every unresolved key makes the server render fail with an
\* error naming that key; no other key raises the error.
C4_EveryUnresolvedKeyNamed ==
  (req # None /\ response # None /\ AllPresent(req[1])) =>
    LET ks == KeysOf(req[1])
    IN \A n \in 1..Len(ks) :
         IF Unresolved(ks[n])
         THEN response[1].kind = "error" /\ response[1].err = DeferredError(ks[n][3])
         ELSE response[1].err # DeferredError(ks[n][3])

\* C4 amended: when some key is unresolved the server render fails with the
\* error naming the first unresolved key in iteration order; when none is,
\* the render does not fail, so pending keys and keys with a recorded error
\* or recorded data never raise it.
C4_FirstUnresolvedKeyNamed ==
  (req # None /\ response # None /\ AllPresent(req[1])) =>
    LET ks  == KeysOf(req[1])
        bad == {n \in 1..Len(ks) : Unresolved(ks[n])}
    IN IF bad # {}
       THEN /\ response[1].kind = "error"
            /\ response[1].err = DeferredError(ks[NthIn(bad, 1)][3])
            /\ response[1].links = <<>> /\ response[1].initial = None
       ELSE response[1].kind = "ok"

\* C4 witness: a failed server render whose request has a pending key, a
\* key with data and two unresolved keys.
C4_Witness ==
  /\ last = "ServerRender"
  /\ response[1].kind = "error"
  /\ AllPresent(req[1])
  /\ LET ks == KeysOf(req[1])
     IN /\ \E n \in 1..Len(ks) : ks[n][3] \in ks[n][2].pendingKeys
        /\ Cardinality({n \in 1..Len(ks) : Unresolved(ks[n])}) = 2

\* The two fixed modulepreload links.
FixedLinks(out) ==
  [i \in 1..Len(out.links) |-> out.links[i].from]
    = <<manifest.url, manifest.entry.module>>

\* What C6 says of a render that read the flag as h.
FlagRules(h, out) ==
  out.kind = "ok" =>
    IF h THEN out.initial = None /\ out.deferred = <<>> /\ FixedLinks(out)
    ELSE out.initial # None

\* C6: isHydrated starts false, becomes true when the mount effect runs and
\* never returns to false; a render while it is true emits no initial
\* scripts, no deferred scripts and only the two fixed modulepreload links; a
\* render while it is false emits the initial scripts.
C6_HydratedFlag ==
  /\ \A realm \in {"server", "client"} : isHydrated[realm] = FALSE
  /\ [][/\ \A realm \in {"server", "client"} :
             isHydrated[realm] => isHydrated'[realm]
        /\ last' = "MountEffect" => isHydrated'["client"]
        /\ isHydrated' # isHydrated => last' = "MountEffect"
        /\ last' = "ClientRender" => FlagRules(isHydrated["client"], cout'[1])
        /\ last' = "ServerRender" => FlagRules(isHydrated["server"], response'[1])
       ]_vars

\* C6 witness: a client render after the mount effect, with a navigation
\* under way, that emitted only the two fixed links.
C6_Witness ==
  /\ last = "ClientRender"
  /\ isHydrated["client"]
  /\ cout[1].kind = "ok"
  /\ cin[1].navigation # None
  /\ Len(cout[1].links) = 2

\* The pending keys of a request, over all active deferred routes.
PendingCount(p) ==
  LET ks == KeysOf(p)
  IN Cardinality({n \in 1..Len(ks) : ks[n][3] \in ks[n][2].pendingKeys})

\* C7: the server writes __remixContext.a = the number of pending keys = the
\* number of deferred scripts it emits, and leaves a unset when there is none;
\* a client render that emits the initial scripts emits exactly that many
\* placeholder scripts, as many as the loaded document holds.
C7_DeferredCountsAgree ==
  /\ (req # None /\ response # None /\ response[1].kind = "ok") =>
       LET n == PendingCount(req[1])
       IN /\ Len(response[1].deferred) = n
          /\ \A i \in 1..n : response[1].deferred[i].routeId # ""
          /\ response[1].initial[1].context.a = (IF n > 0 THEN Some(n) ELSE None)
  /\ (phase = "browser" /\ cout # None /\ cout[1].kind = "ok"
        /\ cout[1].initial # None) =>
       /\ Len(cout[1].deferred) = domDeferred
       /\ IF win[1].a = None THEN cout[1].deferred = <<>>
          ELSE Len(cout[1].deferred) = win[1].a[1]
       /\ \A i \in 1..Len(cout[1].deferred) : cout[1].deferred[i].routeId = ""

\* C7 witness: the first render of the first client instance emitted two
\* placeholders for a document with two deferred scripts.
C7_Witness ==
  /\ last = "ClientRender"
  /\ instRenders = 1
  /\ cout[1].kind = "ok"
  /\ win[1].a = Some(2)
  /\ Len(cout[1].deferred) = 2

\* C8: the initial scripts are computed on the first render of an instance;
\* every later render of it keeps the cell and emits, when it emits them,
\* the initial scripts of the first render, whatever its props.
C8_InitialScriptsFrozen ==
  [][(last' = "ClientRender" /\ instRenders >= 1 /\ cout'[1].kind = "ok") =>
       /\ smemo' = smemo
       /\ cout'[1].initial # None => cout'[1].initial = first[1].initial
    ]_vars

\* C8 witness: a second render with another prefix and other script props
\* emitted the initial scripts of the first.
C8_Witness ==
  /\ last = "ClientRender"
  /\ instRenders = 2
  /\ cout[1].kind = "ok"
  /\ cout[1].initial # None
  /\ cin[1].prefix # first[1].prefix
  /\ cin[1].props # cout[1].initial[1].props

----------------------------------------------------------------------------
\* Properties of the promise registry

\* What r(i, k, ...) settles a promise to, by its argument.
SettledBy(arg, k) ==
  IF arg = "error" THEN [state |-> "rejected", value |-> <<"late error of ", k>>]
  ELSE [state |-> "fulfilled", value |-> <<"late value of ", k>>]

Outcome(promise) == [state |-> promise.state, value |-> promise.value]

\* C5 as stated: every r(i, k, ...) of a streamed script finds the entry
\* t[i][k] that n(i, k) created, and leaves the promise resolved with the
\* value (no error argument) or rejected with the error's message.
C5_RSettlesAsCalled ==
  [][last' = "RunR" =>
       LET pair == lastCall'[1].pair
       IN /\ ~rFault'
          /\ pair \in DOMAIN registry
          /\ Outcome(promises'[pair]) = SettledBy(lastCall'[1].arg, pair[2])
    ]_vars

\* C5 amended: every r(i, k, ...) finds the entry that n(i, k) created; it
\* resolves or rejects the promise as called when the promise is still
\* pending, and leaves it as it is when the abort timer has rejected it.
C5_RSettlesPending ==
  [][last' = "RunR" =>
       LET pair == lastCall'[1].pair
       IN /\ ~rFault'
          /\ pair \in DOMAIN registry
          /\ \A n \in DOMAIN chunks :
               <<hscript.pushed[n].routeId, hscript.pushed[n].dataKey>>
                 \in DOMAIN registry
          /\ IF promises[pair].state = "pending"
             THEN Outcome(promises'[pair]) = SettledBy(lastCall'[1].arg, pair[2])
             ELSE /\ promises'[pair] = promises[pair]
                  /\ promises[pair].value = <<"Server timeout.">>
    ]_vars

\* C5 witness: r ran without an error argument for one of two registered
\* pairs and its promise is resolved with the streamed value.
C5_Witness ==
  /\ last = "RunR"
  /\ Cardinality(DOMAIN registry) = 2
  /\ lastCall[1].arg = "data"
  /\ Outcome(promises[lastCall[1].pair])
       = SettledBy("data", lastCall[1].pair[2])

\* C10: a promise made by n settles at most once whatever the order of r
\* and the abort timer: a settled promise keeps its outcome; the timer
\* firing on a pending promise rejects it with 'Server timeout.'; without a
\* numeric abortDelay no timer is armed and only r settles a promise.
C10_SettlesAtMostOnce ==
  [][/\ \A ik \in DOMAIN promises :
          promises[ik].state # "pending" =>
            Outcome(promises'[ik]) = Outcome(promises[ik])
     /\ last' = "TimerFire" =>
          LET pair == lastCall'[1].pair
          IN promises[pair].state = "pending" =>
               Outcome(promises'[pair])
                 = [state |-> "rejected", value |-> <<"Server timeout.">>]
     /\ hreq[1].abortDelay = None =>
          /\ timers' = {}
          /\ \A ik \in DOMAIN promises :
               Outcome(promises'[ik]) # Outcome(promises[ik]) => last' = "RunR"
    ]_vars

\* C10 witness: the timer fired after r had resolved the promise, which
\* keeps the streamed value.
C10_Witness ==
  /\ last = "TimerFire"
  /\ promises[lastCall[1].pair].state = "fulfilled"
  /\ promises[lastCall[1].pair].value = <<"late value of ", lastCall[1].pair[2]>>

====
